---- MODULE Spec2Model ----
(***************************************************************************)
(* Model of vermouth/molecule.py: the Molecule graph with its interaction  *)
(* registry, the link predicates, the matching functions, merge_molecule,  *)
(* the Block methods and the construction of the parameter effectors.      *)
(*                                                                         *)
(* Encoding.  A Python dict is a function whose DOMAIN is its key set.     *)
(* Atom keys, attribute values and parameters are integers; Python's None  *)
(* is the integer None below, which no attribute value, id or parameter    *)
(* of the model takes otherwise.  An attribute of a template is a record   *)
(* [cls, value, members]: cls "plain" is an ordinary value (value), cls    *)
(* "Choice" a Choice predicate over the list members, cls                  *)
(* "NotDefinedOrNot" that predicate with reference value.                  *)
(***************************************************************************)
EXTENDS Integers, Sequences, FiniteSets, TLC

VARIABLES
    nodes,          \* Molecule node keys in insertion order (OrderedDict)
    attrs,          \* node key -> attribute dict
    edges,          \* set of edges, each the set of its end points
    interactions,   \* Molecule.interactions: type name -> list of Interaction
    force_field,    \* Molecule._force_field
    nrexcl,         \* Molecule.nrexcl
    last,           \* the last call on the molecule: [op, res, ret]
    arg,            \* inputs of a call of a matching function
    out             \* [fn, val]: the function applied to arg and its result

vars == <<nodes, attrs, edges, interactions, force_field, nrexcl, last, arg, out>>

molvars == <<nodes, attrs, edges, interactions, force_field, nrexcl, last>>

-----------------------------------------------------------------------------
(* Bounds *)

MaxVal == 2         \* attribute values are None or 1..MaxVal
MaxInter == 2       \* interactions held by one molecule, all types together
MaxNodes == 3       \* nodes held by the molecule

-----------------------------------------------------------------------------
(* Python values *)

None == -1

Val == 1..MaxVal

ValOrNone == Val \cup {None}

\* attribute keys of a node
Keys == {"resid", "charge_group"}

\* the 'version' entries an interaction's meta takes
Versions == {0, 1}

\* every dict with keys among ks and values among vs
Dicts(ks, vs) == UNION {[s -> vs] : s \in SUBSET ks}

EmptyDict == [x \in {} |-> None]

\* dict.get(key) and dict.get(key, default)
GetDefault(d, key, default) == IF key \in DOMAIN d THEN d[key] ELSE default

Get(d, key) == GetDefault(d, key, None)

\* dict.update / keyword construction: the entries of new win
Update(d, new) ==
    [key \in DOMAIN d \cup DOMAIN new |-> IF key \in DOMAIN new THEN new[key] ELSE d[key]]

Range(s) == {s[i] : i \in DOMAIN s}

-----------------------------------------------------------------------------
(* Predicate engine *)

Plain(v) == [cls |-> "plain", value |-> v, members |-> {}]

Choice(vs) == [cls |-> "Choice", value |-> None, members |-> vs]

NotDefinedOrNot(v) == [cls |-> "NotDefinedOrNot", value |-> v, members |-> {}]

\* Choice.match: node.get(key) in self.value
Choice_match(self, node, key) == Get(node, key) \in self.members

\* mutant: the attribute is read with get(), so an absent key reads as None
NotDefinedOrNot_match_get(self, node, key) == Get(node, key) /= self.value

\* NotDefinedOrNot.match: key not in node or node[key] != self.value
NotDefinedOrNot_match(self, node, key) ==
    key \notin DOMAIN node \/ node[key] /= self.value

\* value.match(attributes, attr), dispatched on the predicate's class
match(value, node, key) ==
    IF value.cls = "Choice" THEN Choice_match(value, node, key)
    ELSE NotDefinedOrNot_match(value, node, key)

isLinkPredicate(value) == value.cls \in {"Choice", "NotDefinedOrNot"}

\* one entry of template_attributes passes the loop body of attributes_match
entry_match(attributes, attr, value, ignore_keys) ==
    \/ attr \in ignore_keys
    \/ /\ isLinkPredicate(value)
       /\ match(value, attributes, attr)
    \/ /\ ~isLinkPredicate(value)
       /\ Get(attributes, attr) = value.value

attributes_match(attributes, template_attributes, ignore_keys) ==
    \A attr \in DOMAIN template_attributes :
        entry_match(attributes, attr, template_attributes[attr], ignore_keys)

-----------------------------------------------------------------------------
(* Interactions and interaction_match *)

\* Interaction = namedtuple('Interaction', 'atoms parameters meta')
Interaction(atoms, parameters, meta) ==
    [atoms |-> atoms, parameters |-> parameters, meta |-> meta]

\* a template: an Interaction, which has no atom_attrs, or a DeleteInteraction
\* = namedtuple('DeleteInteraction', 'atoms atom_attrs parameters meta')
TemplateInteraction(atoms, parameters, meta) ==
    [cls |-> "Interaction", atoms |-> atoms, atom_attrs |-> <<>>,
     parameters |-> parameters, meta |-> meta]

DeleteInteraction(atoms, atom_attrs, parameters, meta) ==
    [cls |-> "DeleteInteraction", atoms |-> atoms, atom_attrs |-> atom_attrs,
     parameters |-> parameters, meta |-> meta]

Min(a, b) == IF a < b THEN a ELSE b

\* mutant: the atoms are compared as sets
atoms_match_unordered(interaction, template_interaction) ==
    Range(template_interaction.atoms) = Range(interaction.atoms)

\* an interaction's meta holds ordinary values; attributes_match reads the
\* template's side, so a meta dict is compared as it is
atoms_match(interaction, template_interaction) ==
    template_interaction.atoms = interaction.atoms

parameters_match(interaction, template_interaction) ==
    \/ template_interaction.parameters = <<>>
    \/ template_interaction.parameters = interaction.parameters

\* try: template_interaction.atom_attrs; except AttributeError: [{}] * len(atoms)
atom_attrs_of(template_interaction) ==
    IF template_interaction.cls = "DeleteInteraction"
    THEN template_interaction.atom_attrs
    ELSE [i \in 1..Len(template_interaction.atoms) |-> EmptyDict]

\* molecule is molecule.nodes: node key -> attribute dict.  zip() stops at the
\* shorter of the two lists.
interaction_match(molecule, interaction, template_interaction) ==
    IF atoms_match(interaction, template_interaction)
       /\ parameters_match(interaction, template_interaction)
    THEN LET atom_attrs == atom_attrs_of(template_interaction)
             n == Min(Len(interaction.atoms), Len(atom_attrs))
         IN  /\ \A i \in 1..n :
                    attributes_match(molecule[interaction.atoms[i]], atom_attrs[i], {})
             /\ attributes_match(interaction.meta, template_interaction.meta, {})
    ELSE FALSE

-----------------------------------------------------------------------------
(* Molecule: the graph and the interaction registry.  A molecule is the    *)
(* record [nodes, attrs, edges, interactions, force_field, nrexcl]; an     *)
(* operation on it is an operator from the molecule and the arguments to   *)
(* [res, self, ret]: how the call ended ("ok" or the exception raised),    *)
(* the molecule after it, and the value returned.                          *)

\* interaction type names; a defaultdict(list): a type never used reads as []
Types == {"bonds", "angles"}

EmptyRegistry == [t \in Types |-> <<>>]

\* Molecule.__init__
Molecule(ff, nx) ==
    [nodes |-> <<>>, attrs |-> EmptyDict, edges |-> {},
     interactions |-> EmptyRegistry, force_field |-> ff, nrexcl |-> nx]

\* the molecule the variables hold
Self ==
    [nodes |-> nodes, attrs |-> attrs, edges |-> edges,
     interactions |-> interactions, force_field |-> force_field, nrexcl |-> nrexcl]

NodeSet(self) == Range(self.nodes)

\* the number of interactions a molecule holds
Total(self) == Len(self.interactions["bonds"]) + Len(self.interactions["angles"])

Outcome(res, self, ret) == [res |-> res, self |-> self, ret |-> ret]

\* nx.Graph.add_node(n, **attr): a new node is added last, an existing one
\* has its attributes updated
add_node(self, n, attr) ==
    IF n \in NodeSet(self)
    THEN [self EXCEPT !.attrs = [@ EXCEPT ![n] = Update(@, attr)]]
    ELSE [self EXCEPT !.nodes = Append(@, n),
                      !.attrs = [m \in DOMAIN @ \cup {n} |->
                                    IF m = n THEN attr ELSE @[m]]]

\* nx.Graph.add_edge(u, v) between two nodes of the graph
add_edge(self, u, v) == [self EXCEPT !.edges = @ \cup {{u, v}}]

\* meta=None: `if meta is None: meta = {}`.  An omitted meta is <<"None">>,
\* a given one <<"dict", meta>>.
NoMeta == <<"None">>

GivenMeta(meta) == <<"dict", meta>>

MetaOrEmpty(meta) == IF meta = NoMeta THEN EmptyDict ELSE meta[2]

\* mutant: the entry is appended before the atoms are checked
add_interaction_then_check(self, type_, atoms, parameters, meta) ==
    LET added == [self EXCEPT !.interactions[type_] =
                     Append(@, Interaction(atoms, parameters, MetaOrEmpty(meta)))]
    IN  IF \E i \in 1..Len(atoms) : atoms[i] \notin NodeSet(self)
        THEN Outcome("UnknownAtom", added, EmptyDict)
        ELSE Outcome("ok", added, EmptyDict)

\* Molecule.add_interaction: raises ValueError('Unknown atom ...') before
\* anything is changed
add_interaction(self, type_, atoms, parameters, meta) ==
    IF \E i \in 1..Len(atoms) : atoms[i] \notin NodeSet(self)
    THEN Outcome("UnknownAtom", self, EmptyDict)
    ELSE Outcome("ok",
                 [self EXCEPT !.interactions[type_] =
                     Append(@, Interaction(atoms, parameters, MetaOrEmpty(meta)))],
                 EmptyDict)

SetMin(S) == CHOOSE x \in S : \A y \in S : x <= y

SetMax(S) == CHOOSE x \in S : \A y \in S : x >= y

version_of(meta) == GetDefault(meta, "version", 0)

\* mutant: the version of the entries is not compared
replace_hits_any_version(self, type_, atoms, meta) ==
    {idx \in 1..Len(self.interactions[type_]) :
        self.interactions[type_][idx].atoms = atoms}

\* the indices the for loop of add_or_replace_interaction breaks at
replace_hits(self, type_, atoms, meta) ==
    {idx \in 1..Len(self.interactions[type_]) :
        /\ self.interactions[type_][idx].atoms = atoms
        /\ version_of(self.interactions[type_][idx].meta) = version_of(meta)}

\* mutant: an absent key is appended to the list directly
add_or_replace_interaction_append(self, type_, atoms, parameters, meta) ==
    LET hits == replace_hits(self, type_, atoms, MetaOrEmpty(meta))
        idx == IF hits /= {} THEN SetMin(hits) ELSE Len(self.interactions[type_]) + 1
    IN  Outcome("ok",
                [self EXCEPT !.interactions[type_] =
                    [i \in 1..(IF hits /= {} THEN Len(@) ELSE Len(@) + 1) |->
                        IF i = idx THEN Interaction(atoms, parameters, MetaOrEmpty(meta))
                        ELSE @[i]]],
                EmptyDict)

\* Molecule.add_or_replace_interaction
add_or_replace_interaction(self, type_, atoms, parameters, meta) ==
    LET hits == replace_hits(self, type_, atoms, MetaOrEmpty(meta))
    IN  IF hits /= {}
        THEN Outcome("ok",
                     [self EXCEPT !.interactions[type_][SetMin(hits)] =
                         Interaction(atoms, parameters, MetaOrEmpty(meta))],
                     EmptyDict)
        ELSE add_interaction(self, type_, atoms, parameters, meta)

\* a list without its entry idx: del list[idx]
DelAt(list, idx) ==
    [i \in 1..(Len(list) - 1) |-> IF i < idx THEN list[i] ELSE list[i + 1]]

\* Python truth of an integer
Truthy(v) == v /= 0

\* the indices the for loop of remove_interaction breaks at: the version
\* argument is not compared, the stored version is tested for truth
remove_hits(self, type_, atoms, version) ==
    {idx \in 1..Len(self.interactions[type_]) :
        /\ self.interactions[type_][idx].atoms = atoms
        /\ Truthy(version_of(self.interactions[type_][idx].meta))}

\* Molecule.remove_interaction: raises KeyError when the loop never breaks
remove_interaction(self, type_, atoms, version) ==
    LET hits == remove_hits(self, type_, atoms, version)
    IN  IF hits = {}
        THEN Outcome("NoMatch", self, EmptyDict)
        ELSE Outcome("ok",
                     [self EXCEPT !.interactions[type_] = DelAt(@, SetMin(hits))],
                     EmptyDict)

matching_hits(self, type_, template_interaction) ==
    {idx \in 1..Len(self.interactions[type_]) :
        interaction_match(self.attrs, self.interactions[type_][idx],
                          template_interaction)}

\* mutant: every matching entry is removed
remove_every_matching_interaction(self, type_, template_interaction) ==
    LET hits == matching_hits(self, type_, template_interaction)
        kept == {idx \in 1..Len(self.interactions[type_]) : idx \notin hits}
        list == self.interactions[type_]
        nth(k) == CHOOSE idx \in kept : Cardinality({j \in kept : j <= idx}) = k
    IN  IF hits = {}
        THEN Outcome("NoMatch", self, EmptyDict)
        ELSE Outcome("ok",
                     [self EXCEPT !.interactions[type_] =
                         [k \in 1..Cardinality(kept) |-> list[nth(k)]]],
                     EmptyDict)

\* Molecule.remove_matching_interaction: raises ValueError('Cannot find a
\* matching interaction.') when the loop never breaks
remove_matching_interaction(self, type_, template_interaction) ==
    LET hits == matching_hits(self, type_, template_interaction)
    IN  IF hits = {}
        THEN Outcome("NoMatch", self, EmptyDict)
        ELSE Outcome("ok",
                     [self EXCEPT !.interactions[type_] = DelAt(@, SetMin(hits))],
                     EmptyDict)

-----------------------------------------------------------------------------
(* merge_molecule *)

\* the order in which molecule.interactions.items() yields the types
TypeOrder == <<"bonds", "angles">>

\* position of node in the iteration over molecule.nodes()
IndexOf(seq, x) == CHOOSE i \in 1..Len(seq) : seq[i] = x

\* mutant: enumerate(molecule.nodes(), start=offset)
correspondence_from_offset(molecule, offset) ==
    [node \in NodeSet(molecule) |-> offset + IndexOf(molecule.nodes, node) - 1]

\* enumerate(molecule.nodes(), start=offset + 1)
correspondence_of(molecule, offset) ==
    [node \in NodeSet(molecule) |-> offset + IndexOf(molecule.nodes, node)]

\* the attributes given to the copy of a node of the merged molecule
merged_atom(atom, residue_offset, offset_charge_group) ==
    Update(atom,
           [resid |-> GetDefault(atom, "resid", 1) + residue_offset,
            charge_group |-> GetDefault(atom, "charge_group", 1) + offset_charge_group])

\* the node loop of merge_molecule, from the k-th node of molecule on
RECURSIVE merge_nodes(_, _, _, _, _, _)
merge_nodes(self, molecule, offset, residue_offset, offset_charge_group, k) ==
    IF k > Len(molecule.nodes)
    THEN self
    ELSE merge_nodes(
             add_node(self, offset + k,
                      merged_atom(molecule.attrs[molecule.nodes[k]],
                                  residue_offset, offset_charge_group)),
             molecule, offset, residue_offset, offset_charge_group, k + 1)

\* mutant: the atoms are not mapped
remap_nothing(correspondence, atoms) == atoms

\* tuple(correspondence[atom] for atom in interaction.atoms)
remap(correspondence, atoms) == [i \in 1..Len(atoms) |-> correspondence[atoms[i]]]

\* the inner interaction loop of merge_molecule for the type name, from the
\* k-th interaction on; an exception ends it with what was added so far
RECURSIVE merge_interactions(_, _, _, _, _)
merge_interactions(self, name, list, correspondence, k) ==
    IF k > Len(list)
    THEN Outcome("ok", self, correspondence)
    ELSE IF \E i \in 1..Len(list[k].atoms) : list[k].atoms[i] \notin DOMAIN correspondence
    THEN Outcome("KeyError", self, EmptyDict)
    ELSE LET added == add_interaction(self, name, remap(correspondence, list[k].atoms),
                                      list[k].parameters, GivenMeta(list[k].meta))
         IN  IF added.res /= "ok"
             THEN added
             ELSE merge_interactions(added.self, name, list, correspondence, k + 1)

\* the outer interaction loop, from the t-th type on
RECURSIVE merge_types(_, _, _, _)
merge_types(self, molecule, correspondence, t) ==
    IF t > Len(TypeOrder)
    THEN Outcome("ok", self, correspondence)
    ELSE LET one == merge_interactions(self, TypeOrder[t],
                                       molecule.interactions[TypeOrder[t]],
                                       correspondence, 1)
         IN  IF one.res /= "ok"
             THEN one
             ELSE merge_types(one.self, molecule, correspondence, t + 1)

\* the edge loop: an edge whose two ends get the same id is skipped
merge_edges(self, molecule, correspondence) ==
    [self EXCEPT !.edges =
        @ \cup {{correspondence[n] : n \in e} :
                  e \in {f \in molecule.edges :
                            Cardinality({correspondence[n] : n \in f}) = 2}}]

\* mutant: an empty molecule adopts whatever nrexcl it holds
adopt_nrexcl_when_empty(self, molecule) ==
    IF Len(self.nodes) = 0
    THEN [self EXCEPT !.nrexcl = molecule.nrexcl]
    ELSE self

\* `if self.nrexcl is None and not self: self.nrexcl = molecule.nrexcl`
adopt_nrexcl(self, molecule) ==
    IF self.nrexcl = None /\ Len(self.nodes) = 0
    THEN [self EXCEPT !.nrexcl = molecule.nrexcl]
    ELSE self

\* self.nodes[last_node_idx]['resid'] raises KeyError when the node with the
\* largest id has no resid
resid_missing(self) ==
    Len(self.nodes) > 0 /\ "resid" \notin DOMAIN self.attrs[SetMax(NodeSet(self))]

\* the body of merge_molecule after its two checks
merge_body(self, molecule) ==
    LET nonempty == Len(self.nodes) > 0
        last_node_idx == SetMax(NodeSet(self))
        offset == IF nonempty THEN last_node_idx ELSE 0
        residue_offset == IF nonempty THEN self.attrs[last_node_idx]["resid"] ELSE 0
        offset_charge_group ==
            IF nonempty THEN GetDefault(self.attrs[last_node_idx], "charge_group", 1) ELSE 0
        correspondence == correspondence_of(molecule, offset)
        with_nodes == merge_nodes(self, molecule, offset, residue_offset,
                                  offset_charge_group, 1)
        with_inter == merge_types(with_nodes, molecule, correspondence, 1)
    IN  IF with_inter.res /= "ok"
        THEN with_inter
        ELSE Outcome("ok", merge_edges(with_inter.self, molecule, correspondence),
                     correspondence)

\* mutant: nrexcl is adopted before the force fields are compared
merge_molecule_adopt_first(self, molecule) ==
    LET adopted == adopt_nrexcl(self, molecule)
    IN  IF adopted.force_field /= molecule.force_field
        THEN Outcome("ForceFieldMismatch", adopted, EmptyDict)
        ELSE IF adopted.nrexcl /= molecule.nrexcl
        THEN Outcome("NrexclMismatch", adopted, EmptyDict)
        ELSE IF resid_missing(adopted)
        THEN Outcome("KeyError", adopted, EmptyDict)
        ELSE merge_body(adopted, molecule)

\* Molecule.merge_molecule
merge_molecule(self, molecule) ==
    IF self.force_field /= molecule.force_field
    THEN Outcome("ForceFieldMismatch", self, EmptyDict)
    ELSE LET adopted == adopt_nrexcl(self, molecule)
         IN  IF adopted.nrexcl /= molecule.nrexcl
             THEN Outcome("NrexclMismatch", adopted, EmptyDict)
             ELSE IF resid_missing(adopted)
             THEN Outcome("KeyError", adopted, EmptyDict)
             ELSE merge_body(adopted, molecule)

-----------------------------------------------------------------------------
(* Block *)

\* A Block is a Molecule whose node keys are atom names, with a name: the
\* record of a molecule with the field name.  Names are strings.

\* the force_field argument of to_molecule: None or a force field
NoForceField == <<"None">>

GivenForceField(ff) == <<"given", ff>>

\* enumerate(self.nodes, start=atom_offset)
name_to_idx_of(self, atom_offset) ==
    [node \in NodeSet(self) |-> atom_offset + IndexOf(self.nodes, node) - 1]

\* the attributes given to the node made of an atom of the block
block_atom(self, atom, offset_resid, offset_charge_group) ==
    Update(atom,
           [resid |-> GetDefault(atom, "resid", 1) + offset_resid,
            resname |-> GetDefault(atom, "resname", self.name),
            charge_group |-> GetDefault(atom, "charge_group", 1) + offset_charge_group])

\* the node loop of to_molecule, from the k-th node of the block on
RECURSIVE to_molecule_nodes(_, _, _, _, _, _)
to_molecule_nodes(mol, self, atom_offset, offset_resid, offset_charge_group, k) ==
    IF k > Len(self.nodes)
    THEN mol
    ELSE to_molecule_nodes(
             add_node(mol, atom_offset + k - 1,
                      block_atom(self, self.attrs[self.nodes[k]],
                                 offset_resid, offset_charge_group)),
             self, atom_offset, offset_resid, offset_charge_group, k + 1)

\* mol.add_interaction(name, atoms, interaction.parameters): no meta is given
to_molecule_add(mol, name, interaction, name_to_idx) ==
    add_interaction(mol, name, remap(name_to_idx, interaction.atoms),
                    interaction.parameters, NoMeta)

\* the inner interaction loop of to_molecule for the type name, from the
\* k-th interaction on
RECURSIVE to_molecule_interactions(_, _, _, _, _)
to_molecule_interactions(mol, name, list, name_to_idx, k) ==
    IF k > Len(list)
    THEN Outcome("ok", mol, EmptyDict)
    ELSE IF \E i \in 1..Len(list[k].atoms) : list[k].atoms[i] \notin DOMAIN name_to_idx
    THEN Outcome("KeyError", mol, EmptyDict)
    ELSE LET added == to_molecule_add(mol, name, list[k], name_to_idx)
         IN  IF added.res /= "ok"
             THEN added
             ELSE to_molecule_interactions(added.self, name, list, name_to_idx, k + 1)

\* the outer interaction loop, from the t-th type on
RECURSIVE to_molecule_types(_, _, _, _)
to_molecule_types(mol, self, name_to_idx, t) ==
    IF t > Len(TypeOrder)
    THEN Outcome("ok", mol, EmptyDict)
    ELSE LET one == to_molecule_interactions(mol, TypeOrder[t],
                                             self.interactions[TypeOrder[t]],
                                             name_to_idx, 1)
         IN  IF one.res /= "ok"
             THEN one
             ELSE to_molecule_types(one.self, self, name_to_idx, t + 1)

\* the edge loop of to_molecule: a self-loop of the block is one of the molecule
to_molecule_edges(mol, self, name_to_idx) ==
    [mol EXCEPT !.edges = @ \cup {{name_to_idx[n] : n \in e} : e \in self.edges}]

\* Block.to_molecule: the block is left as it is, ret is the Molecule made
to_molecule(self, atom_offset, offset_resid, offset_charge_group, force_field_) ==
    LET ff == IF force_field_ = NoForceField THEN self.force_field ELSE force_field_[2]
        name_to_idx == name_to_idx_of(self, atom_offset)
        with_nodes == to_molecule_nodes(Molecule(ff, None), self, atom_offset,
                                        offset_resid, offset_charge_group, 1)
        with_inter == to_molecule_types(with_nodes, self, name_to_idx, 1)
    IN  IF with_inter.res /= "ok"
        THEN Outcome(with_inter.res, self, EmptyDict)
        ELSE Outcome("ok", self,
                     [to_molecule_edges(with_inter.self, self, name_to_idx)
                         EXCEPT !.nrexcl = self.nrexcl])

\* atoms[1:-1]
central(atoms) == SubSeq(atoms, 2, Len(atoms) - 1)

\* self.interactions.get(type_, [])
interactions_get(self, type_) ==
    IF type_ \in DOMAIN self.interactions THEN self.interactions[type_] ELSE <<>>

\* Block.has_improper_around: dih.atoms reads the field of the namedtuple
has_improper_around(self, center) ==
    LET list == interactions_get(self, "impropers")
        all_centers == {central(list[i].atoms) : i \in 1..Len(list)}
    IN  [res |-> "ok", ret |-> center \in all_centers]

\* Block.has_dihedral_around: dih['atoms'] subscripts the entry with a str,
\* and an Interaction is a namedtuple: the first entry raises TypeError
has_dihedral_around(self, center) ==
    LET list == interactions_get(self, "dihedrals")
    IN  IF Len(list) > 0
        THEN [res |-> "TypeError", ret |-> FALSE]
        ELSE [res |-> "ok", ret |-> FALSE]

-----------------------------------------------------------------------------
(* LinkParameterEffector *)

EffectorClasses ==
    {"LinkParameterEffector", "ParamDistance", "ParamAngle", "ParamDihedral",
     "ParamDihedralPhase"}

\* the class attribute n_keys_asked
n_keys_asked(cls) ==
    CASE cls = "ParamDistance" -> 2
      [] cls = "ParamAngle" -> 3
      [] cls = "ParamDihedral" -> 4
      [] cls = "ParamDihedralPhase" -> 4
      [] OTHER -> None

\* the attributes the effector classes define: none of them defines name
class_attributes(cls) == {"n_keys_asked", "__init__", "__call__", "_apply"}

\* LinkParameterEffector.__init__: self.keys is set first; on a wrong number
\* of keys the message of the ValueError is formatted with
\* self.__class__.name, and reading an attribute a class does not define
\* raises AttributeError before the ValueError is made
LinkParameterEffector_init(cls, keys, format) ==
    IF n_keys_asked(cls) /= None /\ Len(keys) /= n_keys_asked(cls)
    THEN [res |-> IF "name" \in class_attributes(cls) THEN "ValueError"
                  ELSE "AttributeError",
          ret |-> [keys |-> keys]]
    ELSE [res |-> "ok", ret |-> [keys |-> keys, format |-> format]]

-----------------------------------------------------------------------------
(* Inputs of the calls *)

NodeIds == {1, 2}

NodeAttrs == {EmptyDict, [resid |-> 1], [resid |-> 2, charge_group |-> 1]}

AtomTuples == {<<1, 2>>, <<2, 1>>}

\* atoms given to the add calls: node 3 is never added by add_node
AddAtoms == AtomTuples \cup {<<1, 3>>}

Params == {<<>>, <<1>>}

Metas == {EmptyDict} \cup {[version |-> v] : v \in Versions}

OptMetas == {NoMeta} \cup {GivenMeta(meta) : meta \in Metas}

ForceFields == {"ff-a", "ff-b"}

\* what a template asks of an interaction's meta and of an atom
TemplateMetas ==
    {EmptyDict, [version |-> Plain(1)], [version |-> NotDefinedOrNot(1)],
     [version |-> Choice({None, 1})]}

TemplateAtomAttrs ==
    {EmptyDict, [resid |-> Plain(1)], [charge_group |-> NotDefinedOrNot(1)]}

\* atom_attrs of no, one and two positions
AtomAttrLists ==
    {<<>>} \cup {<<a>> : a \in TemplateAtomAttrs}
           \cup {<<EmptyDict, a>> : a \in TemplateAtomAttrs}
           \cup {<<[resid |-> Plain(1)], [resid |-> Plain(1)]>>}

TemplateAtoms == AtomTuples \cup {<<1>>}

Templates ==
    {TemplateInteraction(a, p, m) : a \in TemplateAtoms, p \in Params, m \in TemplateMetas}
    \cup {DeleteInteraction(a, aa, p, m) :
              a \in TemplateAtoms, aa \in AtomAttrLists, p \in Params, m \in TemplateMetas}

-----------------------------------------------------------------------------
(* The calls on the molecule *)

\* the bounds of the model
Fits(self) == Len(self.nodes) <= MaxNodes /\ Total(self) <= MaxInter

NoArg ==
    [fn |-> "none", attributes |-> EmptyDict, template_attributes |-> EmptyDict,
     ignore_keys |-> {}, key |-> "resid", self |-> Plain(None), molecule |-> EmptyDict,
     interaction |-> Interaction(<<>>, <<>>, EmptyDict),
     template_interaction |-> TemplateInteraction(<<>>, <<>>, EmptyDict)]

NoOut == [fn |-> "none", val |-> FALSE]

\* the call op ended as outcome: the variables take the molecule it left
Apply(op, outcome) ==
    /\ Fits(outcome.self)
    /\ nodes' = outcome.self.nodes
    /\ attrs' = outcome.self.attrs
    /\ edges' = outcome.self.edges
    /\ interactions' = outcome.self.interactions
    /\ force_field' = outcome.self.force_field
    /\ nrexcl' = outcome.self.nrexcl
    /\ last' = [op |-> op, res |-> outcome.res, ret |-> outcome.ret]
    /\ UNCHANGED <<arg, out>>

Do_add_node(n, attr) ==
    Apply("add_node", Outcome("ok", add_node(Self, n, attr), EmptyDict))

Do_add_interaction(type_, atoms, parameters, meta) ==
    Apply("add_interaction", add_interaction(Self, type_, atoms, parameters, meta))

Do_add_or_replace_interaction(type_, atoms, parameters, meta) ==
    Apply("add_or_replace_interaction",
          add_or_replace_interaction(Self, type_, atoms, parameters, meta))

Do_remove_interaction(type_, atoms, version) ==
    Apply("remove_interaction", remove_interaction(Self, type_, atoms, version))

Do_remove_matching_interaction(type_, template_interaction) ==
    Apply("remove_matching_interaction",
          remove_matching_interaction(Self, type_, template_interaction))

Do_merge_molecule(molecule) ==
    Apply("merge_molecule", merge_molecule(Self, molecule))

\* the state after Molecule(force_field="ff-a", nrexcl=...)
InitMolecule ==
    /\ nodes = <<>>
    /\ attrs = EmptyDict
    /\ edges = {}
    /\ interactions = EmptyRegistry
    /\ force_field = "ff-a"
    /\ nrexcl \in {None, 1}
    /\ last = [op |-> "__init__", res |-> "ok", ret |-> EmptyDict]

\* no matching function is called in the specifications of the molecule
Init ==
    /\ InitMolecule
    /\ arg = NoArg
    /\ out = NoOut

-----------------------------------------------------------------------------
(* SpecRegistry: a molecule built node by node whose registry is edited *)

InitRegistry == Init /\ nrexcl = None

\* node 1 is given a resid, node 2 no attribute
RegistryAttr(n) == IF n = 1 THEN [resid |-> 1] ELSE EmptyDict

RegistryMetas == {NoMeta, GivenMeta([version |-> 1])}

RegistryTemplates ==
    {TemplateInteraction(a, p, m) :
        a \in AtomTuples, p \in Params, m \in TemplateMetas}
    \cup {DeleteInteraction(a, aa, p, EmptyDict) :
              a \in AtomTuples, p \in Params,
              aa \in {<<[resid |-> Plain(1)]>>, <<EmptyDict, [resid |-> Plain(1)]>>}}

NextRegistry ==
    \/ \E n \in NodeIds : Do_add_node(n, RegistryAttr(n))
    \/ \E type_ \in Types, atoms \in AddAtoms, parameters \in Params,
          meta \in RegistryMetas :
          Do_add_interaction(type_, atoms, parameters, meta)
    \/ \E type_ \in Types, atoms \in AddAtoms, parameters \in Params,
          meta \in RegistryMetas :
          Do_add_or_replace_interaction(type_, atoms, parameters, meta)
    \/ \E type_ \in Types, atoms \in AtomTuples, version \in Versions :
          Do_remove_interaction(type_, atoms, version)
    \/ \E type_ \in Types, template_interaction \in RegistryTemplates :
          Do_remove_matching_interaction(type_, template_interaction)

SpecRegistry == InitRegistry /\ [][NextRegistry]_vars

-----------------------------------------------------------------------------
(* SpecReplace: a registry filled by add_or_replace_interaction alone *)

NextReplace ==
    \/ \E n \in NodeIds : Do_add_node(n, RegistryAttr(n))
    \/ \E type_ \in Types, atoms \in AddAtoms, parameters \in Params, meta \in OptMetas :
          Do_add_or_replace_interaction(type_, atoms, parameters, meta)

SpecReplace == InitRegistry /\ [][NextReplace]_vars

-----------------------------------------------------------------------------
(* SpecMerge: a molecule built node by node into which others are merged *)

\* the node keys of a merged molecule, in its iteration order
OtherNodes == {<<1>>, <<2, 1>>}

\* the first node takes any attributes, a second one has resid 1
OtherAttrs(ns) ==
    {[n \in Range(ns) |-> IF n = ns[1] THEN a ELSE [resid |-> 1]] : a \in NodeAttrs}

OtherBonds(ns) ==
    {<<>>,
     <<Interaction(ns, <<1>>, EmptyDict)>>,
     <<Interaction(<<ns[Len(ns)]>>, <<>>, [version |-> 1]),
       Interaction(ns, <<1>>, EmptyDict)>>}

OtherAngles(ns) == {<<>>, <<Interaction(ns, <<>>, [version |-> 0])>>}

\* no interaction, one bond, one angle, or two bonds and an angle
OtherRegistries(ns) ==
    {reg \in {[t \in Types |-> IF t = "bonds" THEN b ELSE a] :
                 b \in OtherBonds(ns), a \in OtherAngles(ns)} :
        Len(reg["bonds"]) + Len(reg["angles"]) \in {0, 1, 3}}

\* an edge between the first and the last node and a self-loop
OtherEdges(ns) == {{ns[1], ns[Len(ns)]}, {ns[1]}}

\* a molecule with interactions has edges and an nrexcl; one of another force
\* field or without nrexcl is bare
Others ==
    UNION {
        {[nodes |-> ns, attrs |-> at, edges |-> OtherEdges(ns), interactions |-> reg,
          force_field |-> "ff-a", nrexcl |-> nx] :
            at \in OtherAttrs(ns), reg \in OtherRegistries(ns) \ {EmptyRegistry},
            nx \in {1, 2}}
        \cup
        {[nodes |-> ns, attrs |-> at, edges |-> {}, interactions |-> EmptyRegistry,
          force_field |-> ff, nrexcl |-> nx] :
            at \in OtherAttrs(ns), ff \in ForceFields, nx \in {None, 1, 2}} :
        ns \in OtherNodes}

\* the molecules the behaviours merge: a bare one of one node, under either
\* force field and nrexcl, one of one node with a bond and one of two nodes
\* with an angle, both with edges and nrexcl 1; their first node has resid 2
\* and charge_group 1
Merged ==
    {o \in Others :
        /\ o.attrs[o.nodes[1]] = [resid |-> 2, charge_group |-> 1]
        /\ \/ Len(o.nodes) = 1 /\ Total(o) = 0
           \/ Len(o.nodes) = 1 /\ Len(o.interactions["bonds"]) = 1 /\ o.nrexcl = 1
           \/ Len(o.nodes) = 2 /\ Len(o.interactions["angles"]) = 1 /\ o.nrexcl = 1}

\* node 2 is added with a resid alone
MergeAttrs(n) == IF n = 1 THEN NodeAttrs ELSE {[resid |-> 1]}

NextMerge ==
    \/ \E n \in NodeIds : \E attr \in MergeAttrs(n) : Do_add_node(n, attr)
    \/ Do_add_interaction("bonds", <<1, 2>>, <<1>>, NoMeta)
    \/ \E molecule \in Merged : Do_merge_molecule(molecule)

SpecMerge == Init /\ [][NextMerge]_vars

-----------------------------------------------------------------------------
(* Claims on the registry *)

\* the entry a call with these arguments stores
Stored(atoms, parameters, meta) ==
    [atoms |-> atoms, parameters |-> parameters,
     meta |-> IF meta = NoMeta THEN EmptyDict ELSE meta[2]]

\* list without its entry at position idx
Without(list, idx) == SubSeq(list, 1, idx - 1) \o SubSeq(list, idx + 1, Len(list))

\* C2: add_interaction is atomic per call.  With every atom a node of the
\* molecule it appends exactly the entry (atoms, parameters, meta or {}) as
\* the last one of the type's list and changes nothing else; with an atom
\* that is no node it fails and leaves the registry and the graph as they were.
C2_AddInteractionAtomic ==
    \A type_ \in Types, atoms \in AddAtoms, parameters \in Params, meta \in OptMetas :
        LET r == add_interaction(Self, type_, atoms, parameters, meta)
        IN  IF Range(atoms) \subseteq Range(nodes)
            THEN /\ r.res = "ok"
                 /\ r.self = [Self EXCEPT !.interactions[type_] =
                                 Append(@, Stored(atoms, parameters, meta))]
            ELSE /\ r.res = "UnknownAtom"
                 /\ r.self = Self

\* a call of add_interaction failed on a molecule that holds interactions
C2_Witness ==
    /\ last.op = "add_interaction"
    /\ last.res = "UnknownAtom"
    /\ Len(interactions["bonds"]) > 0
    /\ Len(interactions["angles"]) > 0

\* the (atoms, version) key of an entry, version read from meta, default 0
KeyOf(entry) == <<entry.atoms, IF "version" \in DOMAIN entry.meta THEN entry.meta["version"] ELSE 0>>

\* the positions of type_'s list that hold the key of a call
KeyPositions(type_, atoms, meta) ==
    {i \in 1..Len(interactions[type_]) :
        KeyOf(interactions[type_][i]) = KeyOf(Stored(atoms, <<>>, meta))}

\* no two entries of one type share their (atoms, version) key
UniqueKeys ==
    \A type_ \in Types : \A i, j \in 1..Len(interactions[type_]) :
        KeyOf(interactions[type_][i]) = KeyOf(interactions[type_][j]) => i = j

\* what add_or_replace_interaction does when the key of the call is present
ReplacesInPlace(type_, atoms, parameters, meta) ==
    LET r == add_or_replace_interaction(Self, type_, atoms, parameters, meta)
        at == KeyPositions(type_, atoms, meta)
    IN  at /= {} =>
            /\ r.res = "ok"
            /\ \E i \in at :
                   r.self = [Self EXCEPT !.interactions[type_][i] =
                                Stored(atoms, parameters, meta)]

\* C3: after add_or_replace_interaction calls alone every (type, atoms,
\* version) key has at most one entry; a call whose key is present replaces
\* that entry in place, so it keeps its position and holds the parameters and
\* meta of the call; a call whose key is absent appends a new last entry (it
\* goes through add_interaction, so with an atom that is no node it raises
\* and changes nothing).
C3_AddOrReplaceUnique ==
    /\ UniqueKeys
    /\ \A type_ \in Types, atoms \in AddAtoms, parameters \in Params, meta \in OptMetas :
           LET r == add_or_replace_interaction(Self, type_, atoms, parameters, meta)
           IN  /\ ReplacesInPlace(type_, atoms, parameters, meta)
               /\ KeyPositions(type_, atoms, meta) = {} =>
                      IF Range(atoms) \subseteq Range(nodes)
                      THEN /\ r.res = "ok"
                           /\ r.self = [Self EXCEPT !.interactions[type_] =
                                           Append(@, Stored(atoms, parameters, meta))]
                      ELSE /\ r.res = "UnknownAtom"
                           /\ r.self = Self

\* a call went through on a list of two entries with the same atoms and
\* different versions
C3_Witness ==
    /\ last.op = "add_or_replace_interaction"
    /\ last.res = "ok"
    /\ \E type_ \in Types :
          /\ Len(interactions[type_]) = 2
          /\ interactions[type_][1].atoms = interactions[type_][2].atoms

\* C4 as stated: remove_interaction(type, atoms) removes the first entry of
\* the type's list whose atoms equal atoms, and fails only when the type has
\* no entry with those atoms.
C4_RemovesFirstWithAtoms ==
    \A type_ \in Types, atoms \in AtomTuples :
        LET r == remove_interaction(Self, type_, atoms, 0)
            at == {i \in 1..Len(interactions[type_]) : interactions[type_][i].atoms = atoms}
        IN  IF at = {}
            THEN r.res = "NoMatch"
            ELSE /\ r.res = "ok"
                 /\ r.self = [Self EXCEPT !.interactions[type_] = Without(@, SetMin(at))]

\* C5: remove_matching_interaction removes exactly the first entry of the
\* type's list that interaction_match accepts against the template and keeps
\* every other entry in its order; with no such entry it fails and removes
\* nothing.
C5_RemoveMatchingFirst ==
    \A type_ \in Types, template_interaction \in RegistryTemplates :
        LET r == remove_matching_interaction(Self, type_, template_interaction)
            at == {i \in 1..Len(interactions[type_]) :
                      interaction_match(attrs, interactions[type_][i], template_interaction)}
        IN  IF at = {}
            THEN /\ r.res = "NoMatch"
                 /\ r.self = Self
            ELSE /\ r.res = "ok"
                 /\ r.self = [Self EXCEPT !.interactions[type_] = Without(@, SetMin(at))]

\* a call of remove_matching_interaction removed an entry and left another
C5_Witness ==
    /\ last.op = "remove_matching_interaction"
    /\ last.res = "ok"
    /\ \E type_ \in Types : Len(interactions[type_]) >= 1

-----------------------------------------------------------------------------
(* Claims on merge_molecule *)

\* max(self), 0 for a molecule without nodes
MaxId == IF nodes = <<>> THEN 0 ELSE SetMax(Range(nodes))

\* C1: a merge_molecule that goes through inserts one new node per atom of
\* the other molecule, with the ids offset+1, offset+2, ... in the other's
\* iteration order, offset being the largest id of self before the call (0
\* for an empty self), and returns the mapping from the other's keys to
\* these ids.
C1_MergeAssignsIds ==
    \A molecule \in Others :
        LET r == merge_molecule(Self, molecule)
            n == Len(molecule.nodes)
        IN  r.res = "ok" =>
                /\ r.self.nodes = nodes \o [k \in 1..n |-> MaxId + k]
                /\ DOMAIN r.ret = Range(molecule.nodes)
                /\ \A k \in 1..n : r.ret[molecule.nodes[k]] = MaxId + k

\* atoms {1, 2} merged with a molecule of one atom: atoms {1, 2, 3}, and the
\* one atom is mapped to 3
C1_Witness ==
    /\ last.op = "merge_molecule"
    /\ last.res = "ok"
    /\ Range(nodes) = {1, 2, 3}
    /\ DOMAIN last.ret = {1}
    /\ last.ret[1] = 3

\* C9: a merge_molecule that goes through leaves, for every type, self's
\* list as it was, followed by the other's list of that type in its order,
\* each entry with its atoms mapped through the returned correspondence and
\* its parameters and meta as they are in the other molecule.
C9_MergeAppendsInteractions ==
    \A molecule \in Others :
        LET r == merge_molecule(Self, molecule)
        IN  r.res = "ok" =>
                \A type_ \in Types :
                    r.self.interactions[type_] =
                        interactions[type_] \o
                        [i \in 1..Len(molecule.interactions[type_]) |->
                            [atoms |-> [j \in 1..Len(molecule.interactions[type_][i].atoms) |->
                                          r.ret[molecule.interactions[type_][i].atoms[j]]],
                             parameters |-> molecule.interactions[type_][i].parameters,
                             meta |-> molecule.interactions[type_][i].meta]]

\* a merge appended an interaction of the other molecule after one self held
C9_Witness ==
    /\ last.op = "merge_molecule"
    /\ last.res = "ok"
    /\ \E type_ \in Types :
          /\ Len(interactions[type_]) = 2
          /\ interactions[type_][1].atoms = <<1, 2>>
          /\ \E j \in DOMAIN interactions[type_][2].atoms :
                 interactions[type_][2].atoms[j] \in {last.ret[k] : k \in DOMAIN last.ret}

\* C10 as stated: with self non-empty and the force fields and nrexcl equal,
\* the merge goes through whether or not self's last atom has a resid or a
\* charge_group, and every inserted node has the resid of the other's atom (1
\* if absent) plus that of self's last atom (1 if absent), and likewise for
\* charge_group.
C10_OffsetsWithDefaults ==
    \A molecule \in Others :
        (nodes /= <<>> /\ force_field = molecule.force_field /\ nrexcl = molecule.nrexcl) =>
            LET r == merge_molecule(Self, molecule)
                last_atom == attrs[MaxId]
                base_resid == IF "resid" \in DOMAIN last_atom THEN last_atom["resid"] ELSE 1
                base_group == IF "charge_group" \in DOMAIN last_atom
                              THEN last_atom["charge_group"] ELSE 1
                resid_of(a) == IF "resid" \in DOMAIN a THEN a["resid"] ELSE 1
                group_of(a) == IF "charge_group" \in DOMAIN a THEN a["charge_group"] ELSE 1
            IN  /\ r.res = "ok"
                /\ \A node \in Range(molecule.nodes) :
                       /\ r.self.attrs[r.ret[node]]["resid"] =
                              resid_of(molecule.attrs[node]) + base_resid
                       /\ r.self.attrs[r.ret[node]]["charge_group"] =
                              group_of(molecule.attrs[node]) + base_group

\* C11 as stated: with equal force fields the merge fails with the nrexcl
\* mismatch when self has atoms and its nrexcl differs from the other's, and
\* when self has no atom it does not fail on nrexcl, whatever nrexcl self
\* holds, and self's nrexcl is the other's afterwards.
C11_EmptyAlwaysAdopts ==
    \A molecule \in Others :
        force_field = molecule.force_field =>
            LET r == merge_molecule(Self, molecule)
            IN  /\ (nodes /= <<>> /\ nrexcl /= molecule.nrexcl) => r.res = "NrexclMismatch"
                /\ nodes = <<>> =>
                       (r.res /= "NrexclMismatch" /\ r.self.nrexcl = molecule.nrexcl)

\* C11, amended: with equal force fields the merge fails with the nrexcl
\* mismatch, leaving self as it was, exactly when self's nrexcl differs from
\* the other's and self has atoms or an nrexcl that is not None; when self
\* has no atom and its nrexcl is None the merge does not fail on nrexcl and
\* self's nrexcl is the other's afterwards.
C11_AdoptsWhenEmptyAndNone ==
    \A molecule \in Others :
        force_field = molecule.force_field =>
            LET r == merge_molecule(Self, molecule)
                own == nodes /= <<>> \/ nrexcl /= None
            IN  /\ r.res = "NrexclMismatch" <=> (own /\ nrexcl /= molecule.nrexcl)
                /\ r.res = "NrexclMismatch" => r.self = Self
                /\ (nodes = <<>> /\ nrexcl = None) => r.self.nrexcl = molecule.nrexcl

\* a merge went through and left nrexcl 2, which no molecule starts with: it
\* was adopted from the merged molecule
C11_Witness ==
    /\ last.op = "merge_molecule"
    /\ last.res = "ok"
    /\ nrexcl = 2
    /\ nodes /= <<>>

\* C12: a merge with a molecule of another force field fails with the force
\* field mismatch and leaves self's atoms, edges, interactions and nrexcl as
\* they were, also when self has no atom.
C12_ForceFieldMismatchFirst ==
    \A molecule \in Others :
        force_field /= molecule.force_field =>
            LET r == merge_molecule(Self, molecule)
            IN  /\ r.res = "ForceFieldMismatch"
                /\ r.self.nodes = nodes
                /\ r.self.attrs = attrs
                /\ r.self.edges = edges
                /\ r.self.interactions = interactions
                /\ r.self.nrexcl = nrexcl

\* the merge of a molecule of another force field into an empty molecule
\* without nrexcl failed on the force field
C12_Witness ==
    /\ last.op = "merge_molecule"
    /\ last.res = "ForceFieldMismatch"
    /\ nodes = <<>>
    /\ nrexcl = None

-----------------------------------------------------------------------------
(* SpecMatch: the matching functions applied to inputs drawn at the start *)

AttrDicts == Dicts(Keys, ValOrNone)

TemplateValues ==
    {Plain(v) : v \in ValOrNone}
    \cup {Choice(vs) : vs \in {{}, {1}, {None, 1}}}
    \cup {NotDefinedOrNot(v) : v \in ValOrNone}

TemplateDicts == Dicts(Keys, TemplateValues)

AttributesMatchArgs ==
    {[NoArg EXCEPT !.fn = "attributes_match", !.attributes = a,
                   !.template_attributes = t, !.ignore_keys = ig] :
        a \in AttrDicts, t \in TemplateDicts, ig \in {{}, {"resid"}}}

ChoiceMatchArgs ==
    {[NoArg EXCEPT !.fn = "Choice.match", !.self = Choice(vs), !.attributes = a, !.key = k] :
        vs \in SUBSET ValOrNone, a \in AttrDicts, k \in Keys}

NotDefinedOrNotMatchArgs ==
    {[NoArg EXCEPT !.fn = "NotDefinedOrNot.match", !.self = NotDefinedOrNot(v),
                   !.attributes = a, !.key = k] :
        v \in ValOrNone, a \in AttrDicts, k \in Keys}

\* the interaction is one of the molecule: its atoms are nodes 1 and 2
InteractionMatchArgs ==
    {[NoArg EXCEPT !.fn = "interaction_match", !.molecule = m,
                   !.interaction = Interaction(a, p, meta), !.template_interaction = t] :
        m \in {[n \in NodeIds |-> IF n = 1 THEN na ELSE [resid |-> 1]] : na \in NodeAttrs},
        a \in AtomTuples, p \in Params, meta \in Metas, t \in Templates}

InitMatch ==
    /\ InitMolecule
    /\ nrexcl = None
    /\ out = NoOut
    /\ arg \in AttributesMatchArgs \cup ChoiceMatchArgs \cup NotDefinedOrNotMatchArgs
                \cup InteractionMatchArgs

Returns(fn, val) ==
    /\ arg.fn = fn
    /\ out = NoOut
    /\ out' = [fn |-> fn, val |-> val]
    /\ UNCHANGED <<molvars, arg>>

Call_attributes_match ==
    Returns("attributes_match",
            attributes_match(arg.attributes, arg.template_attributes, arg.ignore_keys))

Call_Choice_match ==
    Returns("Choice.match", Choice_match(arg.self, arg.attributes, arg.key))

Call_NotDefinedOrNot_match ==
    Returns("NotDefinedOrNot.match", NotDefinedOrNot_match(arg.self, arg.attributes, arg.key))

Call_interaction_match ==
    Returns("interaction_match",
            interaction_match(arg.molecule, arg.interaction, arg.template_interaction))

NextMatch ==
    \/ Call_attributes_match
    \/ Call_Choice_match
    \/ Call_NotDefinedOrNot_match
    \/ Call_interaction_match

SpecMatch == InitMatch /\ [][NextMatch]_vars

-----------------------------------------------------------------------------
(* Claims on the matching functions *)

\* C6: interaction_match is true exactly when (a) the template's atoms equal
\* the interaction's in length and order, (b) the template's parameters are
\* empty or equal the interaction's, (c) for a DeleteInteraction each
\* atom_attrs set matches the attributes of the molecule's atom at its
\* position and (d) the interaction's meta matches the template's meta; so it
\* is false for the same atoms in another order.
C6_InteractionMatchIff ==
    out.fn = "interaction_match" =>
        LET i == arg.interaction
            t == arg.template_interaction
            a == /\ Len(t.atoms) = Len(i.atoms)
                 /\ \A k \in 1..Len(t.atoms) : t.atoms[k] = i.atoms[k]
            b == Len(t.parameters) = 0 \/ t.parameters = i.parameters
            c == t.cls = "DeleteInteraction" =>
                     \A k \in 1..Len(t.atom_attrs) :
                         k <= Len(i.atoms) =>
                             attributes_match(arg.molecule[i.atoms[k]], t.atom_attrs[k], {})
            d == attributes_match(i.meta, t.meta, {})
        IN  out.val = (a /\ b /\ c /\ d)

\* interaction_match said no to a template with the interaction's atoms in
\* another order, which asks nothing else
C6_Witness ==
    /\ out.fn = "interaction_match"
    /\ out.val = FALSE
    /\ arg.interaction.atoms = <<1, 2>>
    /\ arg.template_interaction = TemplateInteraction(<<2, 1>>, <<>>, EmptyDict)

\* what C7 asks of one entry of the template
C7_Satisfied(attributes, key, val) ==
    IF val.cls \in {"Choice", "NotDefinedOrNot"}
    THEN match(val, attributes, key)
    ELSE (IF key \in DOMAIN attributes THEN attributes[key] ELSE None) = val.value

\* C7: attributes_match is true exactly when every entry of the template
\* whose key is not ignored is satisfied: a predicate by its match, any other
\* value by attributes.get(key) being equal to it.  NotDefinedOrNot(value)
\* matches exactly when the key is absent or its value differs from value,
\* so an attribute set to None does not match NotDefinedOrNot(None) and an
\* absent key does.
C7_AttributesMatchIff ==
    /\ out.fn = "attributes_match" =>
           out.val = (\A key \in DOMAIN arg.template_attributes \ arg.ignore_keys :
                          C7_Satisfied(arg.attributes, key, arg.template_attributes[key]))
    /\ out.fn = "NotDefinedOrNot.match" =>
           out.val = (\/ arg.key \notin DOMAIN arg.attributes
                      \/ arg.attributes[arg.key] /= arg.self.value)

\* NotDefinedOrNot(None) said no to an attribute set to None
C7_Witness ==
    /\ out.fn = "NotDefinedOrNot.match"
    /\ out.val = FALSE
    /\ arg.self.value = None
    /\ arg.key \in DOMAIN arg.attributes
    /\ arg.attributes[arg.key] = None

\* C8 as stated: Choice(values).match(attributes, key) is true exactly when
\* key is in attributes and attributes[key] is one of values; it is false
\* for a missing key whatever values holds.
C8_ChoiceNeedsKey ==
    out.fn = "Choice.match" =>
        out.val = (/\ arg.key \in DOMAIN arg.attributes
                   /\ arg.attributes[arg.key] \in arg.self.members)

-----------------------------------------------------------------------------
(* SpecBlock: the methods of Block applied to inputs drawn at the start *)

BlockNodes == {<<"BB">>, <<"SC1", "BB">>}

\* the first atom takes any of these attributes, a second one has resid 1
BlockAtomAttrs ==
    {EmptyDict, [resid |-> 1], [resid |-> 2, charge_group |-> 1, resname |-> "ALA"]}

BlockAttrs(ns) ==
    {[n \in Range(ns) |-> IF n = ns[1] THEN a ELSE [resid |-> 1]] : a \in BlockAtomAttrs}

BlockRegistries(ns) ==
    {[t \in Types |-> IF t = "bonds" THEN b ELSE a] :
        b \in OtherBonds(ns), a \in OtherAngles(ns)}

\* blocks named GLY whose interactions are over their own atoms
Blocks ==
    UNION {
        {[name |-> "GLY", nodes |-> ns, attrs |-> at, edges |-> ed, interactions |-> reg,
          force_field |-> "ff-a", nrexcl |-> nx] :
            at \in BlockAttrs(ns), reg \in BlockRegistries(ns),
            ed \in {{}, OtherEdges(ns)}, nx \in {None, 1}} :
        ns \in BlockNodes}

DihedralAtoms == <<"A", "B", "C", "D">>

DihedralLists ==
    {<<>>,
     <<Interaction(<<"A", "B", "C", "D">>, <<>>, EmptyDict)>>,
     <<Interaction(<<"A", "C", "B", "D">>, <<1>>, EmptyDict),
       Interaction(<<"D", "A", "B", "C">>, <<>>, EmptyDict)>>}

\* blocks of four atoms with or without entries under 'dihedrals' and 'impropers'
DihedralBlocks ==
    {[name |-> "GLY", nodes |-> DihedralAtoms,
      attrs |-> [n \in Range(DihedralAtoms) |-> [resid |-> 1]], edges |-> {},
      interactions |-> reg, force_field |-> "ff-a", nrexcl |-> None] :
        reg \in UNION {[ts -> DihedralLists] : ts \in SUBSET {"dihedrals", "impropers"}}}

Centers == {<<"B", "C">>, <<"C", "B">>, <<"A", "B">>}

NoBlockArg ==
    [fn |-> "none", block |-> EmptyDict, atom_offset |-> 0, offset_resid |-> 0,
     offset_charge_group |-> 0, force_field |-> NoForceField, center |-> <<>>]

ToMoleculeArgs ==
    {[NoBlockArg EXCEPT !.fn = "to_molecule", !.block = b, !.atom_offset = ao,
                        !.offset_resid = ore, !.offset_charge_group = oc,
                        !.force_field = ff] :
        b \in Blocks, ao \in {0, 3}, ore \in {0, 1}, oc \in {0, 1},
        ff \in {NoForceField, GivenForceField("ff-b")}}

HasAroundArgs ==
    {[NoBlockArg EXCEPT !.fn = fn, !.block = b, !.center = c] :
        fn \in {"has_dihedral_around", "has_improper_around"},
        b \in DihedralBlocks, c \in Centers}

InitBlock ==
    /\ InitMolecule
    /\ nrexcl = None
    /\ out = NoOut
    /\ arg \in ToMoleculeArgs \cup HasAroundArgs

\* the method fn of arg.block ended as result: [res, ret]
BlockReturns(fn, result) ==
    /\ arg.fn = fn
    /\ out.fn = "none"
    /\ out' = [fn |-> fn, val |-> result]
    /\ UNCHANGED <<molvars, arg>>

Call_to_molecule ==
    LET r == to_molecule(arg.block, arg.atom_offset, arg.offset_resid,
                         arg.offset_charge_group, arg.force_field)
    IN  BlockReturns("to_molecule", [res |-> r.res, ret |-> r.ret])

Call_has_dihedral_around ==
    BlockReturns("has_dihedral_around", has_dihedral_around(arg.block, arg.center))

Call_has_improper_around ==
    BlockReturns("has_improper_around", has_improper_around(arg.block, arg.center))

NextBlock ==
    \/ Call_to_molecule
    \/ Call_has_dihedral_around
    \/ Call_has_improper_around

SpecBlock == InitBlock /\ [][NextBlock]_vars

-----------------------------------------------------------------------------
(* Claims on Block *)

\* C14 as stated: to_molecule gives the block's atoms the ids atom_offset,
\* atom_offset+1, ... in node insertion order; for every type the molecule's
\* list has the length and order of the block's, each entry with its atoms
\* replaced by their ids and the parameters and meta of the block's entry;
\* every edge of the block is an edge between the corresponding ids.
C14_ToMoleculeCarriesOver ==
    out.fn = "to_molecule" =>
        LET b == arg.block
            mol == out.val.ret
            id(node) == arg.atom_offset + IndexOf(b.nodes, node) - 1
        IN  /\ out.val.res = "ok"
            /\ mol.nodes = [k \in 1..Len(b.nodes) |-> arg.atom_offset + k - 1]
            /\ \A type_ \in DOMAIN b.interactions :
                   /\ Len(mol.interactions[type_]) = Len(b.interactions[type_])
                   /\ \A i \in 1..Len(b.interactions[type_]) :
                          LET e == b.interactions[type_][i]
                              m == mol.interactions[type_][i]
                          IN  /\ m.atoms = [j \in 1..Len(e.atoms) |-> id(e.atoms[j])]
                              /\ m.parameters = e.parameters
                              /\ m.meta = e.meta
            /\ \A e \in b.edges : {id(n) : n \in e} \in mol.edges

\* C15 as stated: on a block whose 'dihedrals' and 'impropers' lists hold
\* Interaction entries, has_dihedral_around(center) and
\* has_improper_around(center) return, without failing, whether some entry of
\* the type has center as its atoms[1:-1], in that order; so they return
\* false when the block has no entry of the type.
C15_AroundIffCentral ==
    out.fn \in {"has_dihedral_around", "has_improper_around"} =>
        LET type_ == IF out.fn = "has_dihedral_around" THEN "dihedrals" ELSE "impropers"
            list == IF type_ \in DOMAIN arg.block.interactions
                    THEN arg.block.interactions[type_] ELSE <<>>
        IN  /\ out.val.res = "ok"
            /\ out.val.ret =
                   (\E i \in 1..Len(list) :
                       /\ Len(list[i].atoms) = Len(arg.center) + 2
                       /\ \A j \in 1..Len(arg.center) : list[i].atoms[j + 1] = arg.center[j])

-----------------------------------------------------------------------------
(* SpecEffector: an effector constructed on inputs drawn at the start *)

EffectorKeys == {"a", "b"}

\* the lists of at most five keys
KeyLists == UNION {[1..n -> EffectorKeys] : n \in 0..5}

\* the format argument: None or a format_spec
NoFormat == <<"None">>

Formats == {NoFormat, <<"given", ".2f">>}

EffectorArgs ==
    {[fn |-> "LinkParameterEffector.__init__", cls |-> c, keys |-> ks, format |-> f] :
        c \in EffectorClasses, ks \in KeyLists, f \in Formats}

InitEffector ==
    /\ InitMolecule
    /\ nrexcl = None
    /\ out = NoOut
    /\ arg \in EffectorArgs

Call_LinkParameterEffector_init ==
    /\ out.fn = "none"
    /\ out' = [fn |-> arg.fn,
               val |-> LinkParameterEffector_init(arg.cls, arg.keys, arg.format)]
    /\ UNCHANGED <<molvars, arg>>

NextEffector == Call_LinkParameterEffector_init

SpecEffector == InitEffector /\ [][NextEffector]_vars

\* the arity spec.md gives each effector variant
C16_Arity(cls) ==
    CASE cls = "ParamDistance" -> 2
      [] cls = "ParamAngle" -> 3
      [] cls \in {"ParamDihedral", "ParamDihedralPhase"} -> 4

\* C16 as stated: constructing ParamDistance, ParamAngle, ParamDihedral or
\* ParamDihedralPhase with a number of keys other than its arity (2, 3, 4, 4)
\* fails with ValueError, and with exactly that number of keys it succeeds.
C16_WrongArityIsValueError ==
    (out.fn = "LinkParameterEffector.__init__" /\ arg.cls /= "LinkParameterEffector") =>
        out.val.res = (IF Len(arg.keys) = C16_Arity(arg.cls) THEN "ok" ELSE "ValueError")

-----------------------------------------------------------------------------
(* Spec: a molecule made empty or from a block, then changed by any call *)

\* the blocks the behaviours make molecules of: two atoms, with both bonds
\* or without interaction
SpecBlocks ==
    {b \in Blocks :
        /\ Len(b.nodes) = 2
        /\ b.attrs[b.nodes[1]] = [resid |-> 1]
        /\ b.edges /= {}
        /\ b.nrexcl = 1
        /\ Len(b.interactions["angles"]) = 0
        /\ Len(b.interactions["bonds"]) \in {0, 2}}

\* mol = block.to_molecule(atom_offset): the variables hold the molecule made
Do_to_molecule(block, atom_offset) ==
    LET r == to_molecule(block, atom_offset, 0, 0, NoForceField)
    IN  /\ r.res = "ok"
        /\ Apply("to_molecule", Outcome("ok", r.ret, EmptyDict))

\* the molecules the behaviours merge: one atom, bare or with a bond
SpecMerged ==
    {o \in Merged : Len(o.nodes) = 1 /\ o.nrexcl = 1}

\* the templates the behaviours remove by: any parameters and meta, with or
\* without a constraint on the first atom
SpecTemplates ==
    {TemplateInteraction(a, <<>>, EmptyDict) : a \in AtomTuples}
    \cup {DeleteInteraction(<<1, 2>>, <<[resid |-> Plain(1)]>>, <<>>, EmptyDict)}

Next ==
    \/ \E n \in NodeIds : Do_add_node(n, RegistryAttr(n))
    \/ \E atoms \in AddAtoms : Do_add_interaction("angles", atoms, <<>>, NoMeta)
    \/ \E atoms \in {<<1, 2>>, <<1, 3>>}, parameters \in Params :
          Do_add_or_replace_interaction("bonds", atoms, parameters,
                                        GivenMeta([version |-> 1]))
    \/ \E type_ \in Types, version \in Versions :
          Do_remove_interaction(type_, <<1, 2>>, version)
    \/ \E type_ \in Types, template_interaction \in SpecTemplates :
          Do_remove_matching_interaction(type_, template_interaction)
    \/ \E molecule \in SpecMerged : Do_merge_molecule(molecule)
    \/ \E block \in SpecBlocks, atom_offset \in {0, 1} : Do_to_molecule(block, atom_offset)

Spec == Init /\ [][Next]_vars

\* C13: in every state reached from an empty molecule, or from the molecule
\* Block.to_molecule returns, by node insertions and add_interaction,
\* add_or_replace_interaction, remove_interaction,
\* remove_matching_interaction and merge_molecule calls, whether they go
\* through or fail, every atom of every interaction of the registry is a
\* node of the molecule.
C13_AtomsAreNodes ==
    \A type_ \in DOMAIN interactions :
        \A i \in 1..Len(interactions[type_]) :
            \A k \in 1..Len(interactions[type_][i].atoms) :
                interactions[type_][i].atoms[k] \in Range(nodes)

\* a failed add_interaction on the molecule made of a block with two bonds,
\* whose interactions are over the ids given to the block's atoms
C13_Witness ==
    /\ last.op = "add_interaction"
    /\ last.res = "UnknownAtom"
    /\ nodes = <<0, 1>>
    /\ Len(interactions["bonds"]) = 2
    /\ interactions["bonds"][2].atoms = <<0, 1>>

====
